---- MODULE Spec2Model ----
(***************************************************************************)
(* Model of the dependency-injection container of the DIP sample           *)
(* (class DIContainer, src/unnamed/part_000 lines 561-575).                *)
(*                                                                         *)
(* A container owns one JavaScript Map from service name to service.       *)
(* register(name, service) is services.set(name, service); get(name) reads *)
(* services.get(name), throws Error(`Service ${name} not found`) when the  *)
(* value read is falsy (`!service`), and returns it otherwise.             *)
(***************************************************************************)
EXTENDS Integers, Sequences, FiniteSets, TLC

\* Number of distinct object instances (references) a caller can register.
NumObjects == 2

\* Number of calls each of the concurrent callers of a container makes.
MaxCalls == 2

\* Number of payments processed on the registered payment processors.
MaxPayments == 2

\* Number of service operations started on the shared database.
MaxOperations == 3

\* Number of controlBasicPlayback calls, and number of clock ticks followed.
MaxPlaybacks == 2

MaxTicks == 8

\* Number of users added, and number of registerUser calls.
MaxAdds == 3

MaxRegistrations == 2

\* Number of elements the owners of the arrays push.
MaxPushes == 2

\* How far, in half units, a vehicle's level is followed below 0 and above
\* 100 before the run stops driving it further.
LevelSlack == 3

(***************************************************************************)
(* JavaScript values.  A value is a record: tag is the typeof-like kind,   *)
(* v the printed primitive, ref the identity of an object (0 for a         *)
(* primitive).  Two object values are the same reference iff ref is equal. *)
(***************************************************************************)
Undefined == [tag |-> "undefined", v |-> "undefined", ref |-> 0]

Null == [tag |-> "null", v |-> "null", ref |-> 0]

Primitive(t, s) == [tag |-> t, v |-> s, ref |-> 0]

Object(r) == [tag |-> "object", v |-> "", ref |-> r]

Objects == {Object(r) : r \in 1..NumObjects}

FalsyValues ==
    {Undefined, Null, Primitive("boolean", "false"),
     Primitive("number", "0"), Primitive("string", "")}

\* The `service: T` argument of register: T is unconstrained (any).
Services == Objects \cup FalsyValues

\* The `name: string` argument of register and get.
Names == {"db", "cache", "missing"}

\* ToBoolean(service), as used by `!service`.
ToBoolean(x) ==
    CASE x.tag = "undefined" -> FALSE
      [] x.tag = "null"      -> FALSE
      [] x.tag = "boolean"   -> x.v = "true"
      [] x.tag = "number"    -> x.v \notin {"0", "NaN"}
      [] x.tag = "string"    -> x.v # ""
      [] OTHER               -> TRUE

(***************************************************************************)
(* The Map<string, any>: a sequence of [key, value] entries in insertion   *)
(* order, at most one entry per key.                                       *)
(***************************************************************************)
NewMap == << >>

MapHas(m, k) == \E i \in 1..Len(m) : m[i].key = k

MapIndex(m, k) == CHOOSE i \in 1..Len(m) : m[i].key = k

\* Map.prototype.get: the value of the entry, undefined when there is none.
MapGet(m, k) == IF MapHas(m, k) THEN m[MapIndex(m, k)].value ELSE Undefined

\* Map.prototype.set: replaces the value in place, or appends a new entry.
MapSet(m, k, x) ==
    IF MapHas(m, k)
    THEN [m EXCEPT ![MapIndex(m, k)] = [key |-> k, value |-> x]]
    ELSE Append(m, [key |-> k, value |-> x])

MapKeys(m) == {m[i].key : i \in 1..Len(m)}

(***************************************************************************)
(* DIContainer, as functions of the services map.                          *)
(***************************************************************************)
\* new Error(`Service ${name} not found`): the template's three parts.
NotFoundError(name) == <<"Service ", name, " not found">>

NoError == << >>

\* Outcome of a call: threw with an error, or returned ret.
Returned(x) == [threw |-> FALSE, ret |-> x, error |-> NoError]

Threw(e) == [threw |-> TRUE, ret |-> Undefined, error |-> e]

\* A method call gives the map it leaves behind and its outcome.
Effect(m, outcome) == [services |-> m, outcome |-> outcome]

\* Variants of register and get with a seeded fault, used to show that the
\* properties below depend on the code of register and get.
\* register backed by an array push: a second entry instead of a replacement
register_Push(services_, name, service) ==
    Effect(Append(services_, [key |-> name, value |-> service]),
           Returned(Undefined))

\* register that rejects a name that is already registered
register_Strict(services_, name, service) ==
    IF MapHas(services_, name)
    THEN Effect(services_, Threw(<<"Service ", name, " already registered">>))
    ELSE Effect(MapSet(services_, name, service), Returned(Undefined))

\* get without the not-found check
get_NoCheck(services_, name) ==
    Effect(services_, Returned(MapGet(services_, name)))

\* get falling back to a default service when nothing is registered
get_Default(services_, name) ==
    LET service == MapGet(services_, name)
    IN  IF ~ToBoolean(service)
        THEN Effect(services_, Returned(Object(1)))
        ELSE Effect(services_, Returned(service))

\* get that records the name it looked up
get_Memo(services_, name) ==
    LET service == MapGet(services_, name)
    IN  IF ~ToBoolean(service)
        THEN Effect(MapSet(services_, name, service), Threw(NotFoundError(name)))
        ELSE Effect(services_, Returned(service))

\* get answering with the service registered last, whatever its name
get_LastInserted(services_, name) ==
    LET service == IF MapHas(services_, name)
                   THEN services_[Len(services_)].value
                   ELSE Undefined
    IN  IF ~ToBoolean(service)
        THEN Effect(services_, Threw(NotFoundError(name)))
        ELSE Effect(services_, Returned(service))

\* register storing a copy of the instance: a new object, another reference
register_Snapshot(services_, name, service) ==
    Effect(MapSet(services_, name,
                  IF service.tag = "object"
                  THEN Object(service.ref + NumObjects)
                  ELSE service),
           Returned(Undefined))

\* register<T>(name, service): void
register(services_, name, service) ==
    Effect(MapSet(services_, name, service), Returned(Undefined))

\* get<T>(name): T
get(services_, name) ==
    LET service == MapGet(services_, name)
    IN  IF ~ToBoolean(service)
        THEN Effect(services_, Threw(NotFoundError(name)))
        ELSE Effect(services_, Returned(service))

(***************************************************************************)
(* State.                                                                  *)
(*   services   the container's private map                                *)
(*   last, prev the two most recent calls on the container with outcome    *)
(*   everRegistered, mostRecent                                            *)
(*              history: the names passed to register so far and the       *)
(*              service of the most recent register of each name           *)
(* State of the two-container run (PermSpec): two containers are given the *)
(* same registrations, each in an order of its own, and are then queried,  *)
(* each in an order of its own.                                            *)
(*   pairs      the registrations: a function from pairwise distinct names *)
(*              to services                                                *)
(*   store      the private map of each of the two containers              *)
(*   todo       per container, the names not registered in it yet          *)
(*   got        per container and name, the outcome of the get of that     *)
(*              name, NotQueried before it                                 *)
(* State of the run of two unrelated containers (PairSpec), with store:    *)
(*   pairLast   the most recent call and the container it was made on      *)
(*   pairReg    per container, the names passed to its register so far     *)
(* State of the run of several callers of one container (ConcSpec), with   *)
(* services, last, everRegistered and mostRecent:                          *)
(*   pc         per caller, the number of calls it has made                *)
(*   caller     the caller that made the most recent call                  *)
(* State of the run with mutable registered instances (HeapSpec), with the *)
(* container's variables:                                                  *)
(*   heap       per object reference, the transactions array of that       *)
(*              MockPaymentProcessor                                       *)
(*   nextTx     the next transaction id (a fresh random token in the code) *)
(*   paidVia    per name, the transactions recorded through a handle that  *)
(*              get(name) returned, since the last register(name, .)       *)
(* State of the services run (AppSpec): UserService and OrderService       *)
(* operations running as async functions over one shared Database.         *)
(*   database   the injected Database: "stub" for MySQLDatabase,           *)
(*              MongoDatabase and PostgreSQLDatabase, "store" for another  *)
(*              implementation of the interface                            *)
(*   notifier   the class of the injected NotificationService              *)
(*   dbOpen     whether the database's connection field is set             *)
(*   lastDbCall the most recent save, findById, update or delete and       *)
(*              whether the connection was open when it ran                *)
(*   task       per task, the operation it runs and where it is            *)
(*   queue      the tasks whose continuation is in the microtask queue     *)
(*   started    the number of operations started so far                    *)
(*   sentEmails the sentEmails array of the injected MockEmailService      *)
(* State of the user registration run (UserSpec):                          *)
(*   users      UserManager.users                                          *)
(*   logs       ActivityLogger.logs                                        *)
(*   regs       the registerUser calls: position, user, and what getUser   *)
(*              gave for the user's id at the moment of the return         *)
(*   awaiting   the registerUser calls suspended at their await, in order  *)
(*   steps      the steps the registerUser calls have performed, in order  *)
(*   umLast     the last UserManager call and the array before it          *)
(*   history    every user added, in order, and whether removed since      *)
(* State of the list getters' run (CopySpec):                              *)
(*   arrays     the array objects: for every array reference its elements  *)
(*   field      the array each private array field refers to               *)
(*   held       the array the caller got from its last getter call         *)
(*   copyLast   the last step: a push, a getter call, or a change the      *)
(*              caller made to the array it holds                          *)
(*   pushed     the number of elements the owners have pushed              *)
(* State of the media run (MediaSpec):                                     *)
(*   clock      the time, in ms                                            *)
(*   timers     the pending setTimeout callbacks                           *)
(*   events     the play, pause and stop calls the players have received,  *)
(*              in order                                                   *)
(*   playbacks  the controlBasicPlayback calls made: player and time       *)
(* State of the vehicle run (VehicleSpec):                                 *)
(*   vehicle    one Vehicle object: its class and its private fields       *)
(*   vLast      the most recent top-level call on it: the methods it       *)
(*              invoked, in order, and whether it threw                    *)
(***************************************************************************)
VARIABLES services, last, prev, everRegistered, mostRecent, pairs, store,
          todo, got, pairLast, pairReg, pc, caller, vehicle, vLast, heap,
          nextTx, paidVia, database, notifier, dbOpen, lastDbCall, task,
          queue, started, sentEmails, clock, timers, events, playbacks,
          users, logs, regs, awaiting, steps, umLast, history, arrays,
          field, held, copyLast, pushed

vars == <<services, last, prev, everRegistered, mostRecent, pairs, store,
          todo, got, pairLast, pairReg, pc, caller, vehicle, vLast, heap,
          nextTx, paidVia, database, notifier, dbOpen, lastDbCall, task,
          queue, started, sentEmails, clock, timers, events, playbacks,
          users, logs, regs, awaiting, steps, umLast, history, arrays,
          field, held, copyLast, pushed>>

outsideContainer == <<pairs, store, todo, got, pairLast, pairReg, pc,
          caller, vehicle, vLast, heap, nextTx, paidVia, database,
          notifier, dbOpen, lastDbCall, task, queue, started, sentEmails,
          clock, timers, events, playbacks, users, logs, regs, awaiting,
          steps, umLast, history, arrays, field, held, copyLast, pushed>>

outsidePerm == <<services, last, prev, everRegistered, mostRecent,
          pairLast, pairReg, pc, caller, vehicle, vLast, heap, nextTx,
          paidVia, database, notifier, dbOpen, lastDbCall, task, queue,
          started, sentEmails, clock, timers, events, playbacks, users,
          logs, regs, awaiting, steps, umLast, history, arrays, field,
          held, copyLast, pushed>>

outsidePair == <<services, last, prev, everRegistered, mostRecent, pairs,
          todo, got, pc, caller, vehicle, vLast, heap, nextTx, paidVia,
          database, notifier, dbOpen, lastDbCall, task, queue, started,
          sentEmails, clock, timers, events, playbacks, users, logs, regs,
          awaiting, steps, umLast, history, arrays, field, held, copyLast,
          pushed>>

outsideConc == <<prev, pairs, store, todo, got, pairLast, pairReg, vehicle,
          vLast, heap, nextTx, paidVia, database, notifier, dbOpen,
          lastDbCall, task, queue, started, sentEmails, clock, timers,
          events, playbacks, users, logs, regs, awaiting, steps, umLast,
          history, arrays, field, held, copyLast, pushed>>

outsideVehicle == <<services, last, prev, everRegistered, mostRecent,
          pairs, store, todo, got, pairLast, pairReg, pc, caller, heap,
          nextTx, paidVia, database, notifier, dbOpen, lastDbCall, task,
          queue, started, sentEmails, clock, timers, events, playbacks,
          users, logs, regs, awaiting, steps, umLast, history, arrays,
          field, held, copyLast, pushed>>

outsideHeap == <<pairs, store, todo, got, pairLast, pairReg, pc, caller,
          vehicle, vLast, database, notifier, dbOpen, lastDbCall, task,
          queue, started, sentEmails, clock, timers, events, playbacks,
          users, logs, regs, awaiting, steps, umLast, history, arrays,
          field, held, copyLast, pushed>>

outsideApp == <<services, last, prev, everRegistered, mostRecent, pairs,
          store, todo, got, pairLast, pairReg, pc, caller, vehicle, vLast,
          heap, nextTx, paidVia, clock, timers, events, playbacks, users,
          logs, regs, awaiting, steps, umLast, history, arrays, field,
          held, copyLast, pushed>>

outsideMedia == <<services, last, prev, everRegistered, mostRecent, pairs,
          store, todo, got, pairLast, pairReg, pc, caller, vehicle, vLast,
          heap, nextTx, paidVia, database, notifier, dbOpen, lastDbCall,
          task, queue, started, sentEmails, users, logs, regs, awaiting,
          steps, umLast, history, arrays, field, held, copyLast, pushed>>

outsideUser == <<services, last, prev, everRegistered, mostRecent, pairs,
          store, todo, got, pairLast, pairReg, pc, caller, vehicle, vLast,
          heap, nextTx, paidVia, database, notifier, dbOpen, lastDbCall,
          task, queue, started, sentEmails, clock, timers, events,
          playbacks, arrays, field, held, copyLast, pushed>>

outsideCopy == <<services, last, prev, everRegistered, mostRecent, pairs,
          store, todo, got, pairLast, pairReg, pc, caller, vehicle, vLast,
          heap, nextTx, paidVia, database, notifier, dbOpen, lastDbCall,
          task, queue, started, sentEmails, clock, timers, events,
          playbacks, users, logs, regs, awaiting, steps, umLast, history>>

containerVars == <<services, last, prev, everRegistered, mostRecent>>

permVars == <<pairs, store, todo, got>>

Containers == {"c1", "c2"}

NoCall ==
    [op |-> "none", name |-> "", service |-> Undefined,
     threw |-> FALSE, ret |-> Undefined, error |-> NoError]

Call(o, name, service, outcome) ==
    [op |-> o, name |-> name, service |-> service,
     threw |-> outcome.threw, ret |-> outcome.ret, error |-> outcome.error]

NotQueried == [threw |-> FALSE, ret |-> Undefined, error |-> <<"not queried">>]

(***************************************************************************)
(* Two containers made by two `new DIContainer()`.  services is an         *)
(* instance field with an initializer, so every instance has a Map of its  *)
(* own: the map a container reads and writes is the one stored under the   *)
(* container itself.                                                       *)
(***************************************************************************)
\* services declared static: one Map shared by every instance
ThisServices_Static(c) == "c1"

\* this.services of container c
ThisServices(c) == c

PairNames == {"db", "cache"}

PairServices == Objects \cup {Null}

NoPairCall == [c |-> "none", call |-> NoCall]

InitPair ==
    /\ pairLast = NoPairCall
    /\ pairReg = [c \in Containers |-> {}]

(***************************************************************************)
(* Several callers (async functions) of one container.  register and get   *)
(* are synchronous methods without an await: JavaScript runs each call to  *)
(* completion, so the callers interleave call by call.                     *)
(***************************************************************************)
Callers == {"a", "b"}

InitConc ==
    /\ pc = [p \in Callers |-> 0]
    /\ caller = "none"

(***************************************************************************)
(* Vehicles (src/SOLID/3-liskov-substitution.ts lines 175-330).  Levels    *)
(* are kept in half units, HybridCar.accelerate burning 0.5 of fuel.       *)
(***************************************************************************)
Level(n) == 2 * n

FullLevel == 100

LowLevel == 20

VehicleKinds == {"Car", "ElectricCar", "Bicycle", "HybridCar"}

VehicleMethods ==
    {"start", "accelerate", "stop", "refuel", "getFuelLevel",
     "recharge", "getBatteryLevel"}

\* `m in vehicle`: the methods each class declares
HasMethod(kind, m) ==
    \/ m \in {"start", "accelerate", "stop"}
    \/ m \in {"refuel", "getFuelLevel"} /\ kind \in {"Car", "HybridCar"}
    \/ m \in {"recharge", "getBatteryLevel"}
          /\ kind \in {"ElectricCar", "HybridCar"}

\* new Car(), new ElectricCar(), new Bicycle(), new HybridCar()
NewVehicle(kind) ==
    [kind |-> kind,
     fuelLevel |-> IF kind \in {"Car", "HybridCar"} THEN Level(FullLevel) ELSE 0,
     batteryLevel |->
         IF kind \in {"ElectricCar", "HybridCar"} THEN Level(FullLevel) ELSE 0]

\* The body of method m of the class of v.
MethodBody(v, m) ==
    CASE m = "accelerate" /\ v.kind = "Car" ->
            [v EXCEPT !.fuelLevel = @ - Level(1)]
      [] m = "accelerate" /\ v.kind = "ElectricCar" ->
            [v EXCEPT !.batteryLevel = @ - Level(2)]
      [] m = "accelerate" /\ v.kind = "HybridCar" ->
            [v EXCEPT !.fuelLevel = @ - 1, !.batteryLevel = @ - Level(1)]
      [] m = "stop" /\ v.kind = "ElectricCar" ->
            [v EXCEPT !.batteryLevel = @ + Level(1)]
      [] m = "refuel" -> [v EXCEPT !.fuelLevel = Level(FullLevel)]
      [] m = "recharge" -> [v EXCEPT !.batteryLevel = Level(FullLevel)]
      [] OTHER -> v

\* getFuelLevel() and getBatteryLevel(): the private field, as it is
getFuelLevel(v) == v.fuelLevel

getBatteryLevel(v) == v.batteryLevel

\* A run of a top-level call: the object, the methods invoked so far and
\* whether an exception is propagating.
StartRun(v) == [v |-> v, log |-> << >>, threw |-> FALSE]

\* vehicle.m(): a TypeError when the object has no method m; nothing more
\* is executed once an exception propagates.
Invoke(r, m) ==
    IF r.threw THEN r
    ELSE IF ~HasMethod(r.v.kind, m) THEN [r EXCEPT !.threw = TRUE]
    ELSE [v |-> MethodBody(r.v, m), log |-> Append(r.log, m), threw |-> FALSE]

operateVehicle(r) == Invoke(Invoke(Invoke(r, "start"), "accelerate"), "stop")

maintainFuelVehicle(r) ==
    LET r1 == Invoke(r, "getFuelLevel")
    IN  IF ~r1.threw /\ r1.v.fuelLevel < Level(LowLevel)
        THEN Invoke(r1, "refuel")
        ELSE r1

maintainElectricVehicle(r) ==
    LET r1 == Invoke(r, "getBatteryLevel")
    IN  IF ~r1.threw /\ r1.v.batteryLevel < Level(LowLevel)
        THEN Invoke(r1, "recharge")
        ELSE r1

\* performMaintenance without the capability checks
performMaintenance_Unchecked(r) ==
    LET r1 == maintainFuelVehicle(r)
    IN  IF r1.threw THEN r1 ELSE maintainElectricVehicle(r1)

performMaintenance(r) ==
    LET r1 == IF HasMethod(r.v.kind, "refuel") /\ HasMethod(r.v.kind, "getFuelLevel")
              THEN maintainFuelVehicle(r)
              ELSE r
    IN  IF r1.threw THEN r1
        ELSE IF HasMethod(r1.v.kind, "recharge")
                   /\ HasMethod(r1.v.kind, "getBatteryLevel")
        THEN maintainElectricVehicle(r1)
        ELSE r1

NoVehicleCall == [op |-> "none", log |-> << >>, threw |-> FALSE]

InitVehicle(kind) ==
    /\ vehicle = NewVehicle(kind)
    /\ vLast = NoVehicleCall

(***************************************************************************)
(* Registered instances with state of their own: MockPaymentProcessor      *)
(* objects (part_000 lines 378-422).  The heap gives, for every object     *)
(* reference, the private transactions array of that object.               *)
(***************************************************************************)
References == 1..(2 * NumObjects)

\* new MockPaymentProcessor(): transactions = []
NewHeap == [r \in References |-> << >>]

\* processPayment on the object o: this.transactions.push(result), the
\* result carrying a fresh transactionId
processPayment(h, o, id) == [h EXCEPT ![o.ref] = Append(@, id)]

\* getTransactions() on the object o: [...this.transactions]
getTransactions(h, o) == h[o.ref]

InitHeap ==
    /\ heap = NewHeap
    /\ nextTx = 1
    /\ paidVia = [n \in PairNames |-> {}]

(***************************************************************************)
(* UserService (part_000 lines 179-215), OrderService (433-531),           *)
(* NotificationService (268-286), ExtendedNotificationService (534-558)    *)
(* over a Database (52-169).  An operation is an async function: it runs   *)
(* up to its next await, where the awaited call has been issued and its    *)
(* body, which has no await of its own, has run; the continuation is then  *)
(* a microtask, run in FIFO order with those of the other operations.      *)
(***************************************************************************)
AppTasks == {"t1", "t2"}

UserOperations == {"createUser", "getUser", "updateUser", "deleteUser"}

OrderOperations == {"createOrder", "processOrderPayment", "refundOrder"}

DataCalls == {"save", "findById", "update", "delete"}

\* The awaited calls of each operation, in program order.
Program(op) ==
    CASE op = "createUser"  -> <<"connect", "save", "disconnect">>
      [] op = "getUser"     -> <<"connect", "findById", "disconnect">>
      [] op = "updateUser"  -> <<"connect", "update", "disconnect">>
      [] op = "deleteUser"  -> <<"connect", "delete", "disconnect">>
      [] op = "createOrder" -> <<"connect", "save", "disconnect">>
      [] op = "processOrderPayment" ->
            <<"connect", "findById", "disconnect",
              "processPayment",
              "connect", "update", "disconnect",
              "connect", "findById", "disconnect",
              "sendOrderConfirmation">>
      [] op = "refundOrder" ->
            <<"refundPayment", "connect", "update", "disconnect">>
      [] OTHER -> << >>

\* The calls of an operation that are inside its try block.
InTry(op, i) ==
    \/ op = "processOrderPayment" /\ i >= 4
    \/ op = "refundOrder"

\* The results a call can give.  kind is "resolved" or "rejected"; value is
\* the document (findById), "success" or "declined" (a payment or refund
\* result), "void" otherwise.
Resolved(x) == [kind |-> "resolved", value |-> x]

Rejected == [kind |-> "rejected", value |-> "error"]

\* findById of the repository's databases returns { id, table } for any id;
\* another Database returns the saved document, or null.
FindResults(db) ==
    IF db = "stub" THEN {Resolved("stub")}
    ELSE {Resolved("document"), Resolved("null"), Rejected}

\* The other Database calls: those of the repository's databases always
\* resolve; those of another Database may reject.
DataResults(db) ==
    IF db = "stub" THEN {Resolved("void")} ELSE {Resolved("void"), Rejected}

\* processPayment and refundPayment of a PaymentProcessor: Stripe, PayPal
\* and Mock report success; another processor may decline or reject.
PaymentResults == {Resolved("success"), Resolved("declined"), Rejected}

\* `!order`, `if (user)`: null is falsy, an object is truthy
Found(doc) == doc # "null"

\* sendOrderConfirmation(user, order) on the injected notification service.
\* NotificationService has no such method (a TypeError);
\* ExtendedNotificationService reads order.items.map, a TypeError for the
\* { id, table } of the repository's databases, and then calls its own
\* private sendEmail, which logs and sends nothing.
sendOrderConfirmation(n, order, emails) ==
    IF n = "NotificationService" THEN [result |-> Rejected, emails |-> emails]
    ELSE IF order # "document" THEN [result |-> Rejected, emails |-> emails]
    ELSE [result |-> Resolved("void"), emails |-> emails]

IdleTask ==
    [op |-> "none", pc |-> 0, status |-> "idle", pending |-> Resolved("void"),
     order |-> "null", user |-> "null",
     connects |-> 0, disconnects |-> 0, paidUpdate |-> FALSE,
     outcome |-> "none", value |-> "void"]

NoDbCall == [method |-> "none", open |-> TRUE]

InitApp(db, n) ==
    /\ database = db
    /\ notifier = n
    /\ dbOpen = FALSE
    /\ lastDbCall = NoDbCall
    /\ task = [t \in AppTasks |-> IdleTask]
    /\ queue = << >>
    /\ started = 0
    /\ sentEmails = << >>

(***************************************************************************)
(* MediaService.controlBasicPlayback (src/SOLID/4-interface-segregation.ts *)
(* lines 446-451): play now, pause from a 1000 ms timer, stop from a       *)
(* 2000 ms timer.                                                          *)
(***************************************************************************)
PauseDelay == 1000

StopDelay == 2000

\* The clock is followed in steps of half the pause delay.
Tick == PauseDelay \div 2

\* audioPlayer, videoPlayer, podcastPlayer of demonstrateISP
Players == {"audio", "video", "podcast"}

Event(c, p, m) == [call |-> c, player |-> p, method |-> m]

\* setTimeout(callback, delay) at time now: the callback is due at
\* now + delay; seq is the order of the setTimeout calls.
SetTimeout(ts, now, delay, c, p, m) ==
    ts \cup {[due |-> now + delay, delay |-> delay, seq |-> Cardinality(ts),
              call |-> c, player |-> p, method |-> m]}

\* controlBasicPlayback with the two delays exchanged
controlBasicPlayback_Swapped(ev, ts, now, c, p) ==
    LET ts1 == SetTimeout(ts, now, StopDelay, c, p, "pause")
    IN  [events |-> Append(ev, Event(c, p, "play")),
         timers |-> SetTimeout(ts1, now, PauseDelay, c, p, "stop")]

\* controlBasicPlayback(player), the c-th call, made at time now
controlBasicPlayback(ev, ts, now, c, p) ==
    LET ts1 == SetTimeout(ts, now, PauseDelay, c, p, "pause")
    IN  [events |-> Append(ev, Event(c, p, "play")),
         timers |-> SetTimeout(ts1, now, StopDelay, c, p, "stop")]

\* The timers the event loop may run next: those due, earliest first, and
\* among timers of one delay in the order of their setTimeout calls.
Runnable(ts, now) ==
    {x \in ts :
        /\ x.due <= now
        /\ \A y \in ts : y.due >= x.due
        /\ \A y \in ts : (y.due = x.due /\ y.delay = x.delay) => y.seq >= x.seq}

InitMedia ==
    /\ clock = 0
    /\ timers = {}
    /\ events = << >>
    /\ playbacks = << >>

(***************************************************************************)
(* UserManager, ActivityLogger and UserService                             *)
(* (src/SOLID/1-single-responsibility.ts lines 37-175).  The array users   *)
(* is a sequence of users, a user its id and its name.                     *)
(***************************************************************************)
UserIds == {"u1", "u2"}

UserNames == {"Ann", "Bob"}

Users == [id : UserIds, name : UserNames]

\* the undefined of a find that matched nothing
NoUser == [id |-> "undefined", name |-> "undefined"]

\* this.users.push(user)
addUser(us, user) == Append(us, user)

\* removeUser dropping the first match only
removeUser_First(us, id) ==
    IF \E i \in 1..Len(us) : us[i].id = id
    THEN LET k == CHOOSE i \in 1..Len(us) :
                      /\ us[i].id = id
                      /\ \A j \in 1..(i - 1) : us[j].id # id
         IN  [i \in 1..(Len(us) - 1) |-> IF i < k THEN us[i] ELSE us[i + 1]]
    ELSE us

\* this.users = this.users.filter(user => user.id !== id)
removeUser(us, id) ==
    LET keep(u) == u.id # id
    IN  SelectSeq(us, keep)

\* getUser returning the last match
getUser_Last(us, id) ==
    IF \E i \in 1..Len(us) : us[i].id = id
    THEN us[CHOOSE i \in 1..Len(us) :
                /\ us[i].id = id
                /\ \A j \in (i + 1)..Len(us) : us[j].id # id]
    ELSE NoUser

\* this.users.find(user => user.id === id)
getUser(us, id) ==
    IF \E i \in 1..Len(us) : us[i].id = id
    THEN us[CHOOSE i \in 1..Len(us) :
                /\ us[i].id = id
                /\ \A j \in 1..(i - 1) : us[j].id # id]
    ELSE NoUser

\* ActivityLogger.logUserActivity: the entry names the user, its id and
\* the activity
logUserActivity(lg, user, activity) ==
    Append(lg, [name |-> user.name, id |-> user.id, activity |-> activity])

\* The steps of registerUser before its await, and those after it.
StepsBeforeAwait == <<"addUser", "saveUser">>

StepsAfterAwait == <<"sendWelcomeEmail", "logUserActivity">>

Step(r, name) == [reg |-> r, step |-> name]

RegisterCalls == 1..MaxRegistrations

NoRegistration == [status |-> "new", user |-> NoUser, found |-> NoUser]

NoUserCall == [op |-> "none", id |-> "none", ret |-> NoUser, before |-> << >>]

InitUsers ==
    /\ users = << >>
    /\ logs = << >>
    /\ regs = [r \in RegisterCalls |-> NoRegistration]
    /\ awaiting = << >>
    /\ steps = << >>
    /\ umLast = NoUserCall
    /\ history = << >>

(***************************************************************************)
(* The private arrays and their getters: UserManager.users,                *)
(* ActivityLogger.logs (src/SOLID/1-single-responsibility.ts lines 45,     *)
(* 122), MockEmailService.sentEmails, MockPaymentProcessor.transactions    *)
(* and refunds (src/unnamed/part_000 lines 251, 379, 380).  Arrays are     *)
(* objects: a field and a caller's variable hold references to them.       *)
(***************************************************************************)
ArrayFields == {"users", "logs", "sentEmails", "transactions", "refunds"}

\* users, log entries, emails, payment and refund results
ArrayItems == {"a", "b"}

\* One array per field, and the one the caller holds.
ArrayRefs == 1..(Cardinality(ArrayFields) + 1)

NoArray == 0

\* The arrays the fields refer to.
FieldArrays(fld) == {fld[f] : f \in ArrayFields}

\* A new array object: a reference not in use.
FreshArray(used) == CHOOSE a \in ArrayRefs : a \notin used

\* [...array] returning the array itself
Spread_Alias(h, fld, a) == [arrays |-> h, ref |-> a]

\* [...array]: a new array with the elements of array a
Spread(h, fld, a) ==
    LET new == FreshArray(FieldArrays(fld))
    IN  [arrays |-> [h EXCEPT ![new] = h[a]], ref |-> new]

getAllUsers(h, fld) == Spread(h, fld, fld["users"])

getLogs(h, fld) == Spread(h, fld, fld["logs"])

getSentEmails(h, fld) == Spread(h, fld, fld["sentEmails"])

\* MockPaymentProcessor.getTransactions, with the identity of the array
getTransactionsArray(h, fld) == Spread(h, fld, fld["transactions"])

getRefunds(h, fld) == Spread(h, fld, fld["refunds"])

Getter(f, h, fld) ==
    CASE f = "users" -> getAllUsers(h, fld)
      [] f = "logs" -> getLogs(h, fld)
      [] f = "sentEmails" -> getSentEmails(h, fld)
      [] f = "transactions" -> getTransactionsArray(h, fld)
      [] f = "refunds" -> getRefunds(h, fld)

Reverse(q) == [i \in 1..Len(q) |-> q[Len(q) + 1 - i]]

\* What a caller does to an array it holds: push, pop, reverse.
Changes(q) ==
    {Append(q, x) : x \in ArrayItems}
        \cup (IF q = << >> THEN {} ELSE {SubSeq(q, 1, Len(q) - 1)})
        \cup {Reverse(q)}

NotHeld == [of |-> "none", ref |-> NoArray]

\* The constructors: every field gets an empty array of its own.
InitCopy ==
    /\ arrays = [a \in ArrayRefs |-> << >>]
    /\ field = [f \in ArrayFields |->
                   CASE f = "users" -> 1
                     [] f = "logs" -> 2
                     [] f = "sentEmails" -> 3
                     [] f = "transactions" -> 4
                     [] f = "refunds" -> 5]
    /\ held = NotHeld
    /\ copyLast = "none"
    /\ pushed = 0

InitLater ==
    /\ InitPair /\ InitConc /\ InitVehicle("Car") /\ InitHeap
    /\ InitApp("stub", "ExtendedNotificationService")
    /\ InitMedia /\ InitUsers /\ InitCopy

\* const container = new DIContainer(), no call made yet
InitContainer ==
    /\ services = NewMap
    /\ last = NoCall
    /\ prev = NoCall
    /\ everRegistered = {}
    /\ mostRecent = [n \in Names |-> Undefined]

InitPerm(p) ==
    /\ pairs = p
    /\ store = [c \in Containers |-> NewMap]
    /\ todo = [c \in Containers |-> DOMAIN p]
    /\ got = [c \in Containers |-> [n \in Names |-> NotQueried]]

Init == InitContainer /\ InitPerm(<< >>) /\ InitLater

\* container.register(name, service)
Register(name, service) ==
    LET e == register(services, name, service)
    IN  /\ services' = e.services
        /\ prev' = last
        /\ last' = Call("register", name, service, e.outcome)
        /\ everRegistered' = everRegistered \cup {name}
        /\ mostRecent' = [mostRecent EXCEPT ![name] = service]
        /\ UNCHANGED outsideContainer

\* container.get(name)
Get(name) ==
    LET e == get(services, name)
    IN  /\ services' = e.services
        /\ prev' = last
        /\ last' = Call("get", name, Undefined, e.outcome)
        /\ UNCHANGED <<everRegistered, mostRecent>>
        /\ UNCHANGED outsideContainer

Next ==
    \/ \E name \in Names, service \in Services : Register(name, service)
    \/ \E name \in Names : Get(name)

Spec == Init /\ [][Next]_vars

(***************************************************************************)
(* PermSpec: the same registrations under pairwise distinct names, made on *)
(* two containers in any two orders, followed by gets in any two orders.   *)
(***************************************************************************)
Registrations == UNION {[D -> Services] : D \in SUBSET Names}

PermInit == InitContainer /\ InitLater /\ \E p \in Registrations : InitPerm(p)

\* c.register(name, pairs[name]) for a name not registered in c yet
PermRegister(c, name) ==
    /\ name \in todo[c]
    /\ store' = [store EXCEPT ![c] = register(store[c], name, pairs[name]).services]
    /\ todo' = [todo EXCEPT ![c] = todo[c] \ {name}]
    /\ UNCHANGED <<pairs, got>>
    /\ UNCHANGED outsidePerm

\* c.get(name), once every registration has been made on c
PermGet(c, name) ==
    /\ todo[c] = {}
    /\ got[c][name] = NotQueried
    /\ LET e == get(store[c], name)
       IN  /\ store' = [store EXCEPT ![c] = e.services]
           /\ got' = [got EXCEPT ![c][name] = e.outcome]
    /\ UNCHANGED <<pairs, todo>>
    /\ UNCHANGED outsidePerm

PermNext ==
    \/ \E c \in Containers, name \in Names : PermRegister(c, name)
    \/ \E c \in Containers, name \in Names : PermGet(c, name)

PermSpec == PermInit /\ [][PermNext]_vars

(***************************************************************************)
(* PairSpec: any calls on two containers.                                  *)
(***************************************************************************)
PairInit == InitContainer /\ InitPerm(<< >>) /\ InitLater

\* c.register(name, service)
PairRegister(c, name, service) ==
    LET e == register(store[ThisServices(c)], name, service)
    IN  /\ store' = [store EXCEPT ![ThisServices(c)] = e.services]
        /\ pairLast' = [c |-> c, call |-> Call("register", name, service, e.outcome)]
        /\ pairReg' = [pairReg EXCEPT ![c] = pairReg[c] \cup {name}]
        /\ UNCHANGED outsidePair

\* c.get(name)
PairGet(c, name) ==
    LET e == get(store[ThisServices(c)], name)
    IN  /\ store' = [store EXCEPT ![ThisServices(c)] = e.services]
        /\ pairLast' = [c |-> c, call |-> Call("get", name, Undefined, e.outcome)]
        /\ UNCHANGED pairReg
        /\ UNCHANGED outsidePair

PairNext ==
    \/ \E c \in Containers, name \in PairNames, service \in PairServices :
          PairRegister(c, name, service)
    \/ \E c \in Containers, name \in PairNames : PairGet(c, name)

PairSpec == PairInit /\ [][PairNext]_vars

(***************************************************************************)
(* ConcSpec: every interleaving of the calls of the callers.               *)
(***************************************************************************)
ConcInit == InitContainer /\ InitPerm(<< >>) /\ InitLater

\* caller p runs container.register(name, service)
ConcRegister(p, name, service) ==
    /\ pc[p] < MaxCalls
    /\ LET e == register(services, name, service)
       IN  /\ services' = e.services
           /\ last' = Call("register", name, service, e.outcome)
    /\ everRegistered' = everRegistered \cup {name}
    /\ mostRecent' = [mostRecent EXCEPT ![name] = service]
    /\ pc' = [pc EXCEPT ![p] = pc[p] + 1]
    /\ caller' = p
    /\ UNCHANGED outsideConc

\* caller p runs container.get(name)
ConcGet(p, name) ==
    /\ pc[p] < MaxCalls
    /\ LET e == get(services, name)
       IN  /\ services' = e.services
           /\ last' = Call("get", name, Undefined, e.outcome)
    /\ pc' = [pc EXCEPT ![p] = pc[p] + 1]
    /\ caller' = p
    /\ UNCHANGED <<everRegistered, mostRecent>>
    /\ UNCHANGED outsideConc

ConcNext ==
    \/ \E p \in Callers, name \in PairNames, service \in PairServices :
          ConcRegister(p, name, service)
    \/ \E p \in Callers, name \in PairNames : ConcGet(p, name)

ConcSpec == ConcInit /\ [][ConcNext]_vars

(***************************************************************************)
(* VehicleSpec: any sequence of operateVehicle, performMaintenance and     *)
(* direct method calls on a vehicle of any of the four classes.            *)
(***************************************************************************)
VehicleInit ==
    /\ InitContainer /\ InitPerm(<< >>) /\ InitPair /\ InitConc /\ InitHeap
    /\ InitApp("stub", "ExtendedNotificationService")
    /\ InitMedia /\ InitUsers /\ InitCopy
    /\ \E kind \in VehicleKinds : InitVehicle(kind)

InWindow(v) ==
    /\ v.fuelLevel >= -LevelSlack
    /\ v.fuelLevel <= Level(FullLevel) + LevelSlack
    /\ v.batteryLevel >= -LevelSlack
    /\ v.batteryLevel <= Level(FullLevel) + LevelSlack

Finish(o, r) ==
    /\ InWindow(r.v)
    /\ vehicle' = r.v
    /\ vLast' = [op |-> o, log |-> r.log, threw |-> r.threw]
    /\ UNCHANGED outsideVehicle

\* operateVehicle(vehicle)
OperateVehicle == Finish("operateVehicle", operateVehicle(StartRun(vehicle)))

\* performMaintenance(vehicle)
PerformMaintenance ==
    Finish("performMaintenance", performMaintenance(StartRun(vehicle)))

\* vehicle.m() for a method m the class of the vehicle declares
CallMethod(m) ==
    /\ HasMethod(vehicle.kind, m)
    /\ Finish(m, Invoke(StartRun(vehicle), m))

VehicleNext ==
    \/ OperateVehicle
    \/ PerformMaintenance
    \/ \E m \in VehicleMethods : CallMethod(m)

VehicleSpec == VehicleInit /\ [][VehicleNext]_vars

(***************************************************************************)
(* HeapSpec: a container of MockPaymentProcessor instances, payments made  *)
(* on the instances, through the caller's own reference or through the     *)
(* handle a get returned (demonstrateDIP, part_000 lines 643-674).         *)
(***************************************************************************)
HeapInit == InitContainer /\ InitPerm(<< >>) /\ InitLater

\* container.register(name, processor)
HeapRegister(name, service) ==
    LET e == register(services, name, service)
    IN  /\ services' = e.services
        /\ prev' = last
        /\ last' = Call("register", name, service, e.outcome)
        /\ everRegistered' = everRegistered \cup {name}
        /\ mostRecent' = [mostRecent EXCEPT ![name] = service]
        /\ paidVia' = [paidVia EXCEPT ![name] = {}]
        /\ UNCHANGED <<heap, nextTx>>
        /\ UNCHANGED outsideHeap

\* container.get<MockPaymentProcessor>(name)
HeapGet(name) ==
    LET e == get(services, name)
    IN  /\ services' = e.services
        /\ prev' = last
        /\ last' = Call("get", name, Undefined, e.outcome)
        /\ UNCHANGED <<everRegistered, mostRecent, heap, nextTx, paidVia>>
        /\ UNCHANGED outsideHeap

\* processor.processPayment(...) on the caller's own reference to an instance
PayOnObject(o) ==
    /\ nextTx <= MaxPayments
    /\ heap' = processPayment(heap, o, nextTx)
    /\ nextTx' = nextTx + 1
    /\ UNCHANGED <<services, last, prev, everRegistered, mostRecent, paidVia>>
    /\ UNCHANGED outsideHeap

\* processPayment on the handle the most recent get returned
PayOnHandle ==
    /\ nextTx <= MaxPayments
    /\ last.op = "get"
    /\ ~last.threw
    /\ last.ret.tag = "object"
    /\ heap' = processPayment(heap, last.ret, nextTx)
    /\ paidVia' = [paidVia EXCEPT ![last.name] = @ \cup {nextTx}]
    /\ nextTx' = nextTx + 1
    /\ UNCHANGED <<services, last, prev, everRegistered, mostRecent>>
    /\ UNCHANGED outsideHeap

HeapNext ==
    \/ \E name \in PairNames, service \in PairServices : HeapRegister(name, service)
    \/ \E name \in PairNames : HeapGet(name)
    \/ \E o \in Objects : PayOnObject(o)
    \/ PayOnHandle

HeapSpec == HeapInit /\ [][HeapNext]_vars

(***************************************************************************)
(* AppSpec: operations of UserService and OrderService started at any      *)
(* moments on one shared Database.                                         *)
(***************************************************************************)
AppInit ==
    /\ InitContainer /\ InitPerm(<< >>) /\ InitPair /\ InitConc /\ InitHeap
    /\ InitVehicle("Car") /\ InitMedia /\ InitUsers /\ InitCopy
    /\ \E db \in {"stub", "store"},
          n \in {"NotificationService", "ExtendedNotificationService"} :
          InitApp(db, n)

\* The operation of task record r ends: its promise resolves with x, or
\* rejects.
Settle(r, how, x) ==
    [r EXCEPT !.status = "done", !.outcome = how, !.value = x]

\* An awaited call rejected: inside a try block the catch returns false,
\* elsewhere the operation rejects.
Catch(r) ==
    IF InTry(r.op, r.pc) THEN Settle(r, "resolved", "false")
    ELSE Settle(r, "rejected", "error")

\* What the operation does when the call at r.pc has resolved, before its
\* next call: "next" to go on, or the way it ends.
AfterCall(r) ==
    LET op == r.op
        i == r.pc
        res == r.pending.value
    IN  CASE op = "processOrderPayment" /\ i = 3 /\ ~Found(r.order) -> "throw"
          [] op = "processOrderPayment" /\ i = 4 /\ res # "success" -> "false"
          [] op = "processOrderPayment" /\ i = 10 /\ ~Found(r.user) -> "true"
          [] op = "processOrderPayment" /\ i = 11 -> "true"
          [] op = "refundOrder" /\ i = 1 /\ res # "success" -> "false"
          [] op = "refundOrder" /\ i = 4 -> "true"
          [] i = Len(Program(op)) -> "void"
          [] OTHER -> "next"

\* Task t issues the call at position i of its operation; the body of the
\* call runs and gives result res.
Issue(t, r, i, res) ==
    LET call == Program(r.op)[i]
        r1 == [r EXCEPT !.pc = i, !.status = "ready", !.pending = res]
        r2 == CASE call = "connect" -> [r1 EXCEPT !.connects = @ + 1]
                [] call = "disconnect" -> [r1 EXCEPT !.disconnects = @ + 1]
                [] call = "findById" /\ r.op = "processOrderPayment" /\ i = 2 ->
                      [r1 EXCEPT !.order = res.value]
                [] call = "findById" /\ r.op = "processOrderPayment" /\ i = 9 ->
                      [r1 EXCEPT !.user = res.value]
                [] call = "update" /\ r.op = "processOrderPayment" ->
                      [r1 EXCEPT !.paidUpdate = TRUE]
                [] OTHER -> r1
    IN  /\ res \in CASE call \in {"connect", "disconnect"} -> {Resolved("void")}
                     [] call = "findById" -> FindResults(database)
                     [] call \in DataCalls -> DataResults(database)
                     [] call \in {"processPayment", "refundPayment"} -> PaymentResults
                     [] OTHER -> {sendOrderConfirmation(notifier, r.order, sentEmails).result}
        /\ task' = [task EXCEPT ![t] = r2]
        /\ dbOpen' = CASE call = "connect" -> TRUE
                       [] call = "disconnect" -> FALSE
                       [] OTHER -> dbOpen
        /\ lastDbCall' = IF call \in DataCalls
                         THEN [method |-> call, open |-> dbOpen]
                         ELSE lastDbCall
        /\ sentEmails' = IF call = "sendOrderConfirmation"
                         THEN sendOrderConfirmation(notifier, r.order, sentEmails).emails
                         ELSE sentEmails

AllResults == {Resolved(x) : x \in {"void", "stub", "document", "null",
                                    "success", "declined"}} \cup {Rejected}

\* An operation is called: it runs up to its first await.
AppStart(t, op) ==
    /\ started < MaxOperations
    /\ task[t].status \in {"idle", "done"}
    /\ started' = started + 1
    /\ \E res \in AllResults :
          Issue(t, [IdleTask EXCEPT !.op = op], 1, res)
    /\ queue' = Append(queue, t)
    /\ UNCHANGED <<database, notifier>>
    /\ UNCHANGED outsideApp

\* The oldest continuation runs: the operation goes on up to its next
\* await, or ends.
AppRun ==
    /\ queue # << >>
    /\ LET t == Head(queue)
           r == task[t]
           how == AfterCall(r)
       IN  IF r.pending.kind = "rejected"
           THEN /\ task' = [task EXCEPT ![t] = Catch(r)]
                /\ queue' = Tail(queue)
                /\ UNCHANGED <<dbOpen, lastDbCall, sentEmails>>
           ELSE IF how = "next"
           THEN /\ \E res \in AllResults : Issue(t, r, r.pc + 1, res)
                /\ queue' = Append(Tail(queue), t)
           ELSE /\ task' = [task EXCEPT ![t] =
                               IF how = "throw"
                               THEN Settle(r, "rejected", "error")
                               ELSE Settle(r, "resolved", how)]
                /\ queue' = Tail(queue)
                /\ UNCHANGED <<dbOpen, lastDbCall, sentEmails>>
    /\ UNCHANGED <<database, notifier, started>>
    /\ UNCHANGED outsideApp

AppNext ==
    \/ \E t \in AppTasks, op \in UserOperations \cup OrderOperations :
          AppStart(t, op)
    \/ AppRun

AppSpec == AppInit /\ [][AppNext]_vars

(***************************************************************************)
(* MediaSpec: controlBasicPlayback called at any moments, the timers run   *)
(* by the event loop.  Time passes and a due timer is eventually run.      *)
(***************************************************************************)
MediaInit ==
    /\ InitContainer /\ InitPerm(<< >>) /\ InitPair /\ InitConc /\ InitHeap
    /\ InitVehicle("Car")
    /\ InitApp("stub", "ExtendedNotificationService")
    /\ InitMedia /\ InitUsers /\ InitCopy

\* mediaService.controlBasicPlayback(p)
ControlBasicPlayback(p) ==
    /\ Len(playbacks) < MaxPlaybacks
    /\ clock + StopDelay <= MaxTicks * Tick
    /\ LET e == controlBasicPlayback(events, timers, clock, Len(playbacks) + 1, p)
       IN  /\ events' = e.events
           /\ timers' = e.timers
    /\ playbacks' = Append(playbacks, [player |-> p, at |-> clock])
    /\ UNCHANGED clock
    /\ UNCHANGED outsideMedia

\* Time passes.
MediaAdvance ==
    /\ clock + Tick <= MaxTicks * Tick
    /\ clock' = clock + Tick
    /\ UNCHANGED <<timers, events, playbacks>>
    /\ UNCHANGED outsideMedia

\* The event loop runs a due timer: () => player.pause() or player.stop().
MediaFire ==
    /\ \E x \in Runnable(timers, clock) :
          /\ timers' = timers \ {x}
          /\ events' = Append(events, Event(x.call, x.player, x.method))
    /\ UNCHANGED <<clock, playbacks>>
    /\ UNCHANGED outsideMedia

MediaNext ==
    \/ \E p \in Players : ControlBasicPlayback(p)
    \/ MediaAdvance
    \/ MediaFire

MediaSpec ==
    MediaInit /\ [][MediaNext]_vars /\ WF_vars(MediaAdvance) /\ WF_vars(MediaFire)

(***************************************************************************)
(* UserSpec: registerUser calls, and direct calls of the UserManager the   *)
(* service was given, at any moments.  A registerUser call runs up to its  *)
(* await, and its continuation runs later, the continuations in the order  *)
(* of the awaits.                                                          *)
(***************************************************************************)
UserInit ==
    /\ InitContainer /\ InitPerm(<< >>) /\ InitPair /\ InitConc /\ InitHeap
    /\ InitVehicle("Car")
    /\ InitApp("stub", "ExtendedNotificationService")
    /\ InitMedia /\ InitUsers /\ InitCopy

Added(user) == Append(history, [user |-> user, removed |-> FALSE])

\* userManager.addUser(user)
AddUser(user) ==
    /\ Len(history) < MaxAdds
    /\ users' = addUser(users, user)
    /\ history' = Added(user)
    /\ umLast' = [op |-> "addUser", id |-> user.id, ret |-> NoUser,
                  before |-> users]
    /\ UNCHANGED <<logs, regs, awaiting, steps>>
    /\ UNCHANGED outsideUser

\* userManager.removeUser(id)
RemoveUser(id) ==
    /\ users' = removeUser(users, id)
    /\ history' = [i \in 1..Len(history) |->
                      IF history[i].user.id = id
                      THEN [history[i] EXCEPT !.removed = TRUE]
                      ELSE history[i]]
    /\ umLast' = [op |-> "removeUser", id |-> id, ret |-> NoUser,
                  before |-> users]
    /\ UNCHANGED <<logs, regs, awaiting, steps>>
    /\ UNCHANGED outsideUser

\* userManager.getUser(id)
GetUser(id) ==
    /\ umLast' = [op |-> "getUser", id |-> id, ret |-> getUser(users, id),
                  before |-> users]
    /\ UNCHANGED <<users, logs, regs, awaiting, steps, history>>
    /\ UNCHANGED outsideUser

\* userService.registerUser({name}) up to its await: generateUserId gives
\* some id, the user is added, saveUser runs and resolves.
RegisterUserStart(r, name, id) ==
    /\ regs[r].status = "new"
    /\ \A q \in RegisterCalls : q < r => regs[q].status # "new"
    /\ Len(history) < MaxAdds
    /\ LET user == [id |-> id, name |-> name]
       IN  /\ users' = addUser(users, user)
           /\ history' = Added(user)
           /\ umLast' = [op |-> "addUser", id |-> id, ret |-> NoUser,
                         before |-> users]
           /\ regs' = [regs EXCEPT ![r] = [status |-> "awaiting",
                                           user |-> user, found |-> NoUser]]
    /\ steps' = steps \o [i \in 1..Len(StepsBeforeAwait) |->
                              Step(r, StepsBeforeAwait[i])]
    /\ awaiting' = Append(awaiting, r)
    /\ UNCHANGED logs
    /\ UNCHANGED outsideUser

\* registerUser after its await: the welcome email, the log entry, return.
RegisterUserResume ==
    /\ awaiting # << >>
    /\ LET r == Head(awaiting)
           user == regs[r].user
       IN  /\ logs' = logUserActivity(logs, user, "User registered")
           /\ steps' = steps \o [i \in 1..Len(StepsAfterAwait) |->
                                     Step(r, StepsAfterAwait[i])]
           /\ regs' = [regs EXCEPT ![r] = [status |-> "done", user |-> user,
                                           found |-> getUser(users, user.id)]]
    /\ awaiting' = Tail(awaiting)
    /\ UNCHANGED <<users, umLast, history>>
    /\ UNCHANGED outsideUser

UserNext ==
    \/ \E user \in Users : AddUser(user)
    \/ \E id \in UserIds : RemoveUser(id)
    \/ \E id \in UserIds : GetUser(id)
    \/ \E r \in RegisterCalls, name \in UserNames, id \in UserIds :
          RegisterUserStart(r, name, id)
    \/ RegisterUserResume

UserSpec == UserInit /\ [][UserNext]_vars

(***************************************************************************)
(* CopySpec: the owners push onto their arrays, a caller calls the getters *)
(* and changes the array it got.                                           *)
(***************************************************************************)
CopyInit ==
    /\ InitContainer /\ InitPerm(<< >>) /\ InitPair /\ InitConc /\ InitHeap
    /\ InitVehicle("Car")
    /\ InitApp("stub", "ExtendedNotificationService")
    /\ InitMedia /\ InitUsers /\ InitCopy

\* this.users.push(user), this.logs.push(logEntry),
\* this.sentEmails.push({...}), this.transactions.push(result),
\* this.refunds.push(result)
PushItem(f, x) ==
    /\ pushed < MaxPushes
    /\ pushed' = pushed + 1
    /\ arrays' = [arrays EXCEPT ![field[f]] = Append(@, x)]
    /\ copyLast' = "push"
    /\ UNCHANGED <<field, held>>
    /\ UNCHANGED outsideCopy

\* const list = owner.getX()
CallGetter(f) ==
    /\ LET e == Getter(f, arrays, field)
       IN  /\ held' = [of |-> f, ref |-> e.ref]
           /\ arrays' = e.arrays
    /\ copyLast' = "get"
    /\ UNCHANGED <<field, pushed>>
    /\ UNCHANGED outsideCopy

\* list.push(x), list.pop(), list.reverse() by the caller
ChangeHeld ==
    /\ held # NotHeld
    /\ \E q \in Changes(arrays[held.ref]) :
          /\ Len(q) <= MaxPushes
          /\ arrays' = [arrays EXCEPT ![held.ref] = q]
    /\ copyLast' = "change"
    /\ UNCHANGED <<field, held, pushed>>
    /\ UNCHANGED outsideCopy

CopyNext ==
    \/ \E f \in ArrayFields, x \in ArrayItems : PushItem(f, x)
    \/ \E f \in ArrayFields : CallGetter(f)
    \/ ChangeHeld

CopySpec == CopyInit /\ [][CopyNext]_vars

(***************************************************************************)
(* Properties of DIContainer.                                              *)
(***************************************************************************)
\* The error of a throwing call names the looked-up key.
Carries(error, name) == \E i \in 1..Len(error) : error[i] = name

\* C1: after register(k, v), for any v, the next get(k) returns exactly v
\* (the same reference) and does not fail.
C1_RegisterThenGetReturnsIt ==
    (prev.op = "register" /\ last.op = "get" /\ last.name = prev.name)
        => (~last.threw /\ last.ret = prev.service)

\* C2: get(k) of a key that was never passed to register throws an error
\* that carries k, and returns no value.
C2_GetUnregisteredThrows ==
    (last.op = "get" /\ last.name \notin everRegistered)
        => (last.threw /\ Carries(last.error, last.name)
            /\ last.error = NotFoundError(last.name))

C2_Witness ==
    /\ last.op = "get"
    /\ last.name \notin everRegistered
    /\ everRegistered # {}
    /\ last.threw

\* C3: last-write-wins: after any sequence of calls, get(k) of a registered
\* key returns the service of the most recent register(k, .).
C3_LastWriteWins ==
    (last.op = "get" /\ last.name \in everRegistered)
        => (~last.threw /\ last.ret = mostRecent[last.name])

\* C4: register(k1, v) changes the mapping of k1 only, so that after
\* register(k1, v1), register(k2, v2) with k2 # k1, get(k1) returns v1 and
\* get(k2) returns v2.
C4_RegisterFrame ==
    \A n \in Names :
        (last'.op = "register" /\ last'.name # n)
            => /\ MapHas(services', n) = MapHas(services, n)
               /\ MapGet(services', n) = MapGet(services, n)

C4_GetAfterOtherRegister ==
    /\ (last.op = "get" /\ prev.op = "register" /\ prev.name # last.name
            /\ last.name \in everRegistered)
          => (~last.threw /\ last.ret = mostRecent[last.name])
    /\ (last.op = "get" /\ prev.op = "register" /\ prev.name = last.name
            /\ everRegistered # {last.name})
          => (~last.threw /\ last.ret = prev.service)

C4_DistinctKeysDoNotInterfere ==
    [][C4_RegisterFrame]_vars /\ []C4_GetAfterOtherRegister

\* C5: get never invents a result: a value returned by get(k) is the service
\* most recently registered under k.
C5_GetReturnsOnlyRegistered ==
    (last.op = "get" /\ ~last.threw)
        => (last.name \in everRegistered
            /\ last.ret = mostRecent[last.name]
            /\ MapGet(services, last.name) = last.ret)

C5_Witness ==
    /\ last.op = "get"
    /\ ~last.threw
    /\ \E n \in everRegistered : n # last.name /\ mostRecent[n] # last.ret

\* C6: each key is absent or maps to exactly one value, the one currently
\* registered, and the present keys are exactly the keys passed to register.
C6_OneEntryPerRegisteredKey ==
    /\ MapKeys(services) = everRegistered
    /\ \A i, j \in 1..Len(services) :
          services[i].key = services[j].key => i = j
    /\ \A n \in everRegistered : MapGet(services, n) = mostRecent[n]

C6_Witness ==
    /\ Len(services) >= 2
    /\ prev.op = "register"
    /\ last.op = "register"
    /\ prev.name = last.name
    /\ prev.service # last.service

\* C7: register is total: in every reachable state register(key, instance)
\* completes without an error for every key, registered or not, and every
\* instance.
C7_RegisterTotal ==
    /\ \A n \in Names, x \in Services : ~register(services, n, x).outcome.threw
    /\ last.op = "register" => ~last.threw

C7_Witness ==
    /\ prev.op = "register"
    /\ last.op = "register"
    /\ last.name = prev.name
    /\ ~last.threw

\* C8: register is idempotent: a second register(k, v) right after a
\* register(k, v) leaves the container as the first one left it.
C8_RegisterIdempotent ==
    [][(last.op = "register" /\ last'.op = "register"
            /\ last'.name = last.name /\ last'.service = last.service)
          => services' = services]_vars

C8_Witness ==
    /\ prev.op = "register"
    /\ last.op = "register"
    /\ last.name = prev.name
    /\ last.service = prev.service
    /\ Len(services) >= 2

\* C9: order independence: two containers given the same registrations
\* under pairwise distinct keys, in any two orders, answer every get(k)
\* alike, in whatever order the keys are queried.
C9_OrderIndependent ==
    /\ \A n \in Names :
          (got["c1"][n] # NotQueried /\ got["c2"][n] # NotQueried)
              => got["c1"][n] = got["c2"][n]
    /\ (todo["c1"] = {} /\ todo["c2"] = {})
          => \A n \in Names :
                get(store["c1"], n).outcome = get(store["c2"], n).outcome

C9_Witness ==
    /\ DOMAIN pairs = Names
    /\ todo["c1"] = {} /\ todo["c2"] = {}
    /\ store["c1"] # store["c2"]
    /\ \A c \in Containers, n \in Names : got[c][n] # NotQueried
    /\ \E n1, n2 \in Names : got["c1"][n1] # got["c1"][n2] /\ ~got["c1"][n1].threw

\* C10: get is read-only: a get, returning or throwing, leaves every mapping
\* of the container unchanged, so every registration made before a failed
\* get is retrievable after it.
C10_GetReadOnly ==
    [][last'.op = "get"
          => /\ services' = services
             /\ \A n \in Names :
                   get(services', n).outcome = get(services, n).outcome]_vars

C10_Witness ==
    /\ last.op = "get"
    /\ last.threw
    /\ last.name \notin everRegistered
    /\ prev.op = "register"
    /\ ToBoolean(prev.service)

\* C11: there is no removal: a key that register has stored stays in the
\* map in every later state, so that a get(k) made after a register(k, .),
\* whatever calls came between, does not fail with not-found.
C11_KeyStays ==
    \A n \in Names : MapHas(services, n) => MapHas(services', n)

C11_GetOfRegisteredDoesNotFail ==
    (last.op = "get" /\ last.name \in everRegistered)
        => ~(last.threw /\ last.error = NotFoundError(last.name))

C11_NoRemoval ==
    [][C11_KeyStays]_vars /\ []C11_GetOfRegisteredDoesNotFail

\* C12: containers are independent: a register(k, v) on one container does
\* not change the result of any get on the other one, and a key registered
\* only in the one is not found in the other.
C12_RegisterLeavesOther ==
    \A c, d \in Containers :
        (pairLast'.c = c /\ pairLast'.call.op = "register" /\ d # c)
            => \A n \in PairNames :
                  get(store'[ThisServices(d)], n).outcome
                      = get(store[ThisServices(d)], n).outcome

C12_NotFoundInOther ==
    (pairLast.call.op = "get" /\ pairLast.call.name \notin pairReg[pairLast.c])
        => /\ pairLast.call.threw
           /\ pairLast.call.error = NotFoundError(pairLast.call.name)

C12_ContainersIndependent ==
    [][C12_RegisterLeavesOther]_vars /\ []C12_NotFoundInOther

C12_Witness ==
    /\ pairLast.c = "c2"
    /\ pairLast.call.op = "get"
    /\ pairLast.call.threw
    /\ pairLast.call.name \in pairReg["c1"] \ pairReg["c2"]
    /\ ~get(store[ThisServices("c1")], pairLast.call.name).outcome.threw
    /\ pairReg["c2"] # {}

\* C13: register and get take effect atomically: in every interleaving of
\* the calls of several callers, a get(k) either fails, no register(k, .)
\* having taken effect before it, or returns the value of the latest
\* register(k, .) that took effect before it, and a call on one key does
\* not affect the outcome of a call on another key.
C13_GetSeesLatestRegister ==
    (last.op = "get" /\ caller \in Callers)
        => \/ last.threw /\ last.name \notin everRegistered
           \/ /\ ~last.threw
              /\ last.name \in everRegistered
              /\ last.ret = mostRecent[last.name]

C13_OtherKeysUnaffected ==
    \A n \in PairNames :
        (caller' \in Callers /\ last'.name # n)
            => get(services', n).outcome = get(services, n).outcome

C13_AtomicCalls ==
    []C13_GetSeesLatestRegister /\ [][C13_OtherKeysUnaffected]_vars

\* C14: vehicles are substitutable: for a Car, an ElectricCar, a Bicycle
\* and a HybridCar, in any state, operateVehicle performs start, accelerate,
\* stop in that order, performMaintenance completes, and neither throws.
C14_VehiclesSubstitutable ==
    /\ vLast.op = "operateVehicle"
          => ~vLast.threw /\ vLast.log = <<"start", "accelerate", "stop">>
    /\ vLast.op = "performMaintenance" => ~vLast.threw
    /\ LET r == operateVehicle(StartRun(vehicle))
       IN  ~r.threw /\ r.log = <<"start", "accelerate", "stop">>
    /\ ~performMaintenance(StartRun(vehicle)).threw

C14_Witness ==
    /\ vLast.op = "performMaintenance"
    /\ ~vLast.threw
    /\ vehicle.kind = "HybridCar"
    /\ vLast.log = <<"getFuelLevel", "getBatteryLevel", "recharge">>

\* C15: the registry stores a handle, not a snapshot: the instance a get(k)
\* returns is the registered one, so it shows the state changes made to
\* that instance after register(k, obj); two get(k) with no register(k, .)
\* between them return the identical instance; payments recorded through
\* the handle of a get(k) are listed by getTransactions() on the instance a
\* later get(k) returns.
Elements(q) == {q[i] : i \in 1..Len(q)}

C15_HandleNotSnapshot ==
    /\ (last.op = "get" /\ ~last.threw /\ last.ret.tag = "object")
          => /\ last.ret.ref = mostRecent[last.name].ref
             /\ getTransactions(heap, last.ret)
                   = getTransactions(heap, mostRecent[last.name])
             /\ paidVia[last.name] \subseteq Elements(getTransactions(heap, last.ret))
    /\ (last.op = "get" /\ prev.op = "get" /\ last.name = prev.name
            /\ ~last.threw /\ ~prev.threw)
          => last.ret = prev.ret

C15_Witness ==
    /\ last.op = "get" /\ prev.op = "get" /\ last.name = prev.name
    /\ ~last.threw
    /\ paidVia[last.name] # {}
    /\ Elements(getTransactions(heap, last.ret)) # paidVia[last.name]

(***************************************************************************)
(* Properties of the services.                                             *)
(***************************************************************************)
Finished(t, op) == task[t].op = op /\ task[t].status = "done"

\* C16: sendOrderConfirmation sends the confirmation through the injected
\* EmailService: after a processOrderPayment that returned true, with an
\* ExtendedNotificationService over a MockEmailService, the mock's sent
\* emails contain an order confirmation addressed to the order's user.
C16_ConfirmationSent ==
    \A t \in AppTasks :
        (/\ Finished(t, "processOrderPayment")
         /\ task[t].outcome = "resolved" /\ task[t].value = "true"
         /\ notifier = "ExtendedNotificationService"
         /\ Found(task[t].user))
            => \E i \in 1..Len(sentEmails) :
                  sentEmails[i] = [to |-> "user", subject |-> "Order Confirmation"]

\* C17: processOrderPayment returns true if and only if it issued the
\* update that sets the order's status to "paid"; when it returns false, no
\* such update was issued.
C17_TrueIffPaidUpdate ==
    \A t \in AppTasks :
        (Finished(t, "processOrderPayment") /\ task[t].outcome = "resolved")
            => (task[t].value = "true" <=> task[t].paidUpdate)

\* C18: in every interleaving of operations sharing one Database, each
\* save, findById, update and delete runs while the connection is open.
C18_DataCallsWhileOpen ==
    lastDbCall.method \in DataCalls => lastDbCall.open

\* C19: connect and disconnect are balanced: when an operation has ended,
\* resolved or rejected, it has closed every connection it opened, and the
\* database is disconnected when no operation is running.
C19_ConnectionsBalanced ==
    /\ \A t \in AppTasks :
          task[t].status = "done" => task[t].connects = task[t].disconnects
    /\ (\A t \in AppTasks : task[t].status \in {"idle", "done"}) => ~dbOpen

(***************************************************************************)
(* Properties of MediaService.                                             *)
(***************************************************************************)
\* Position of the call of method m of playback c in events, 0 when it has
\* not happened.
At(c, m) ==
    IF \E i \in 1..Len(events) : events[i].call = c /\ events[i].method = m
    THEN CHOOSE i \in 1..Len(events) : events[i].call = c /\ events[i].method = m
    ELSE 0

Before(i, j) == j # 0 => (i # 0 /\ i < j)

Made == 1..Len(playbacks)

\* C20 as stated: for every controlBasicPlayback(p), p receives play, then
\* pause, then stop; and over the calls made one after another, every play
\* precedes every pause and every pause precedes every stop.
C20_EveryPlayBeforeEveryPause ==
    \A c, d \in Made :
        /\ Before(At(c, "play"), At(d, "pause"))
        /\ Before(At(c, "pause"), At(d, "stop"))

\* C20 as amended: for every controlBasicPlayback(p), p receives play, then
\* pause, then stop, in that order, pause and stop not before their delays
\* have passed (the call returns right after play), and stop eventually
\* occurs; over calls made less than 1000 ms apart, every play precedes
\* every pause and every pause precedes every stop.
C20_OrderWithinPauseDelay ==
    \A c, d \in Made :
        /\ At(c, "play") # 0
        /\ Before(At(c, "play"), At(c, "pause"))
        /\ Before(At(c, "pause"), At(c, "stop"))
        /\ At(c, "pause") # 0 => clock >= playbacks[c].at + PauseDelay
        /\ At(c, "stop") # 0 => clock >= playbacks[c].at + StopDelay
        /\ (playbacks[c].at - playbacks[d].at < PauseDelay
                /\ playbacks[d].at - playbacks[c].at < PauseDelay)
              => /\ Before(At(c, "play"), At(d, "pause"))
                 /\ Before(At(c, "pause"), At(d, "stop"))

C20_StopOccurs ==
    \A c \in 1..MaxPlaybacks : (Len(playbacks) >= c) ~> (At(c, "stop") # 0)

C20_PlaybackOrder == []C20_OrderWithinPauseDelay /\ C20_StopOccurs

C20_Witness ==
    /\ Len(playbacks) >= 2
    /\ playbacks[1].player # playbacks[2].player
    /\ playbacks[2].at - playbacks[1].at < PauseDelay
    /\ playbacks[2].at > playbacks[1].at
    /\ At(1, "stop") # 0 /\ At(2, "stop") # 0

(***************************************************************************)
(* Properties of the vehicles' energy levels.                              *)
(***************************************************************************)
\* C21: energy levels stay in range: after every sequence of start,
\* accelerate, stop, refuel and recharge calls on a Car or an ElectricCar,
\* getFuelLevel() and getBatteryLevel() return a value between 0 and 100
\* inclusive.
C21_LevelsInRange ==
    /\ vehicle.kind = "Car"
          => /\ getFuelLevel(vehicle) >= Level(0)
             /\ getFuelLevel(vehicle) <= Level(FullLevel)
    /\ vehicle.kind = "ElectricCar"
          => /\ getBatteryLevel(vehicle) >= Level(0)
             /\ getBatteryLevel(vehicle) <= Level(FullLevel)

(***************************************************************************)
(* Properties of UserManager and UserService.registerUser.                 *)
(***************************************************************************)
\* The positions of the users of array us whose id is not id, and the k-th
\* of them.
Kept(us, id) == {i \in 1..Len(us) : us[i].id # id}

KthKept(us, id, k) ==
    CHOOSE i \in Kept(us, id) :
        Cardinality({j \in Kept(us, id) : j < i}) = k - 1

\* The earliest-added user with id that has not been removed since.
EarliestLive(id) ==
    LET live == {i \in 1..Len(history) :
                    history[i].user.id = id /\ ~history[i].removed}
    IN  IF live = {} THEN NoUser
        ELSE history[CHOOSE i \in live : \A j \in live : i <= j].user

\* C22: UserManager keeps users in insertion order: getUser(id) returns the
\* earliest-added user with that id that has not been removed (undefined
\* when none); removeUser(id) removes every user with that id, leaves all
\* other users and their relative order unchanged, and is a no-op for an
\* unknown id.
C22_InsertionOrder ==
    /\ \A id \in UserIds : getUser(users, id) = EarliestLive(id)
    /\ umLast.op = "getUser" => umLast.ret = EarliestLive(umLast.id)
    /\ umLast.op = "removeUser" =>
          /\ \A i \in 1..Len(users) : users[i].id # umLast.id
          /\ Len(users) = Cardinality(Kept(umLast.before, umLast.id))
          /\ \A k \in 1..Len(users) :
                users[k] = umLast.before[KthKept(umLast.before, umLast.id, k)]
          /\ (\A i \in 1..Len(umLast.before) : umLast.before[i].id # umLast.id)
                => users = umLast.before

C22_Witness ==
    /\ umLast.op = "removeUser"
    /\ Len(umLast.before) >= 3
    /\ umLast.before[1].id # umLast.id
    /\ umLast.before[2].id = umLast.id
    /\ umLast.before[3].id = umLast.id
    /\ umLast.before[2] # umLast.before[3]
    /\ Len(users) = 1

\* The steps registerUser call r has performed, in order.
StepsOf(r) ==
    LET mine(e) == e.reg = r
        own == SelectSeq(steps, mine)
    IN  [i \in 1..Len(own) |-> own[i].step]

IsPrefix(a, b) == Len(a) <= Len(b) /\ \A i \in 1..Len(a) : a[i] = b[i]

\* The steps of a registerUser call are addUser, saveUser, then, after the
\* await, sendWelcomeEmail and logUserActivity.
C24_StepsInOrder ==
    \A r \in RegisterCalls :
        /\ IsPrefix(StepsOf(r), StepsBeforeAwait \o StepsAfterAwait)
        /\ regs[r].status = "awaiting" => StepsOf(r) = StepsBeforeAwait
        /\ regs[r].status = "done"
              => StepsOf(r) = StepsBeforeAwait \o StepsAfterAwait

\* When registerUser returns, exactly one log entry has been appended for
\* the user.
C24_OneLogEntry ==
    \A r \in RegisterCalls :
        regs[r].status = "done" =>
            /\ Cardinality({i \in 1..Len(steps) :
                               steps[i] = Step(r, "logUserActivity")}) = 1
            /\ \E i \in 1..Len(logs) :
                  logs[i] = [name |-> regs[r].user.name, id |-> regs[r].user.id,
                             activity |-> "User registered"]

\* When registerUser returns, getUser(user.id) gives the returned user.
C24_ReturnedUserRetrievable ==
    \A r \in RegisterCalls :
        regs[r].status = "done" => regs[r].found = regs[r].user

\* C24: registerUser performs its steps in the order addUser, saveUser,
\* sendWelcomeEmail, logUserActivity, the email sent and the activity logged
\* only after saveUser has succeeded; when registerUser resolves the
\* returned user is retrievable with userManager.getUser(user.id) and
\* exactly one log entry has been appended for it.
C24_RegisterUserOrder ==
    /\ C24_StepsInOrder
    /\ C24_OneLogEntry
    /\ C24_ReturnedUserRetrievable

(***************************************************************************)
(* Properties of the list getters.                                         *)
(***************************************************************************)
\* The elements a call of the getter of field f returns now.
GetterResult(f) ==
    LET e == Getter(f, arrays, field)
    IN  e.arrays[e.ref]

\* C23: the list getters return defensive copies: changing the array
\* returned by getAllUsers, getLogs, getSentEmails, getTransactions or
\* getRefunds (adding, removing or reordering elements) does not change
\* what a later call of the same getter returns.
C23_DefensiveCopies ==
    [][copyLast' = "change"
          => \A f \in ArrayFields : GetterResult(f)' = GetterResult(f)]_vars

C23_Witness ==
    /\ copyLast = "change"
    /\ held.of = "transactions"
    /\ Len(GetterResult("transactions")) = MaxPushes
    /\ arrays[held.ref] = Reverse(GetterResult("transactions"))
    /\ arrays[held.ref] # GetterResult("transactions")
====
